---- MODULE Spec2Model ----
(***************************************************************************)
(* Model of backend/open_webui/retrieval/web/utils.py: URL validation      *)
(* (validate_url, safe_validate_urls, resolve_hostname), the two loaders   *)
(* (SafePlaywrightURLLoader, SafeWebBaseLoader) and get_web_loader.        *)
(*                                                                         *)
(* Time is counted in ticks of half a second, so that the minimum interval *)
(* 1/requests_per_second is 1 tick for the default rate 2.                 *)
(***************************************************************************)
EXTENDS Integers, Sequences, FiniteSets, TLC

VARIABLES
    ENABLE_RAG_LOCAL_WEB_FETCH, \* the flag validate_url reads: the name the
                        \* import statement bound in this module
    config_flag,        \* open_webui.config.ENABLE_RAG_LOCAL_WEB_FETCH, the
                        \* value the operator configures
    strategy,           \* RAG_WEB_LOADER.value as get_web_loader read it
    em_args,            \* arguments of the recorded extract_metadata call
    metadata,           \* the dict it returned, or not called
    ssl_seen,           \* the last call of _verify_ssl_cert and how it ended
    vin,                \* argument of the recorded safe_validate_urls call
    vout,               \* its outcome: not called, returned a list, or raised
    loader,             \* the constructed loader object (its fields), or None
    origin,             \* who constructed it: get_web_loader or a direct call
    pc,                 \* position of the consumer / generator
    mode,               \* "sync" (lazy_load) or "async" (alazy_load)
    idx,                \* index of the URL the for loop is at
    browser,            \* the browser handle: none, open, closed
    now,                \* what datetime.now() returned when last called
    last_request_time,  \* self.last_request_time
    slept,              \* how long the last rate-limit wait asked to sleep
    results,            \* the Documents yielded so far (by source URL)
    fetched,            \* the URLs navigated to / scraped so far, in order
    events              \* how the processing of each URL ended ("ok" with a
                        \* Document, "failed" in the except clause), in order

vars == <<ENABLE_RAG_LOCAL_WEB_FETCH, config_flag, strategy, em_args, metadata,
          ssl_seen, vin, vout, loader, origin, pc, mode,
          idx, browser, now, last_request_time, slept, results, fetched, events>>

None == "None"

----------------------------------------------------------------------------
(* Bounds *)

MaxLen == 3          \* longest URL list handed to safe_validate_urls alone
MaxUrls == 3         \* longest URL list of a SafePlaywrightURLLoader
MaxPaths == 3        \* longest URL list of a SafeWebBaseLoader
MaxElapse == 1       \* most ticks between two readings of the clock
MaxOvershoot == 1    \* most ticks a sleep lasts beyond what was asked
MaxLiveUrls == 2     \* longest URL list of a loader in SpecLive

----------------------------------------------------------------------------
(* The URL strings of the model and what the collaborators say of them *)

U_BAD  == "not a url"
U_PUB  == "https://example.com/"
U_PRIV == "http://intranet.example/"
U_MIX  == "https://mixed.example/"
U_NX   == "http://nxdomain.example/"

URLS == {U_BAD, U_PUB, U_PRIV, U_MIX, U_NX}

\* the URLs get_web_loader is called with: an invalid one, a public one, one
\* with a private address, one that does not resolve
FACTORY_URLS == {U_BAD, U_PUB, U_MIX, U_NX}

\* the URLs a loader is constructed over when its class is called directly:
\* one https and one http URL
DIRECT_URLS == {U_PUB, U_PRIV}

BSeq(S, n) == UNION {[1..k -> S] : k \in 0..n}

\* validators.url(url): TRUE when it does not return a ValidationError
validators_url(url) == url # U_BAD

\* urllib.parse.urlparse(url).hostname
urlparse_hostname(url) ==
    CASE url = U_PUB  -> "example.com"
      [] url = U_PRIV -> "intranet.example"
      [] url = U_MIX  -> "mixed.example"
      [] url = U_NX   -> "nxdomain.example"
      [] OTHER        -> None

AF_INET == "AF_INET"
AF_INET6 == "AF_INET6"

\* socket.getaddrinfo(hostname, None): the (family, address) pairs, or gaierror
getaddrinfo(hostname) ==
    CASE hostname = "example.com" ->
            [exc |-> None,
             info |-> <<[family |-> AF_INET,  addr |-> "93.184.216.34"],
                        [family |-> AF_INET6, addr |-> "2606:2800::1"]>>]
      [] hostname = "intranet.example" ->
            [exc |-> None,
             info |-> <<[family |-> AF_INET,  addr |-> "10.0.0.5"]>>]
      [] hostname = "mixed.example" ->
            [exc |-> None,
             info |-> <<[family |-> AF_INET,  addr |-> "93.184.216.34"],
                        [family |-> AF_INET6, addr |-> "fc00::1"]>>]
      [] OTHER -> [exc |-> "gaierror", info |-> <<>>]

\* validators.ipv4(ip, private=True) / validators.ipv6(ip, private=True)
validators_ipv4_private(ip) == ip \in {"10.0.0.5", "127.0.0.1", "169.254.0.1"}
validators_ipv6_private(ip) == ip \in {"fc00::1", "::1", "fe80::1"}

----------------------------------------------------------------------------
(* resolve_hostname, validate_url, safe_validate_urls *)

IsAF(fam, inf) == inf.family = fam
Addrs(infos, fam) ==
    LET sel == SelectSeq(infos, LAMBDA inf : IsAF(fam, inf))
    IN  [k \in 1..Len(sel) |-> sel[k].addr]

resolve_hostname(hostname) ==
    LET addr_info == getaddrinfo(hostname)
    IN  IF addr_info.exc # None
        THEN [exc |-> addr_info.exc, ipv4 |-> <<>>, ipv6 |-> <<>>]
        ELSE [exc |-> None,
              ipv4 |-> Addrs(addr_info.info, AF_INET),
              ipv6 |-> Addrs(addr_info.info, AF_INET6)]

\* for ip in ipv4_addresses: if validators.ipv4(ip, private=True): raise
AnyPrivateIpv4(ips) == \E k \in 1..Len(ips) : validators_ipv4_private(ips[k])
\* for ip in ipv6_addresses: if validators.ipv6(ip, private=True): raise
AnyPrivateIpv6(ips) == \E k \in 1..Len(ips) : validators_ipv6_private(ips[k])

\* validate_url without the loop over the IPv6 addresses
validate_url_ipv4_only(url, flag) ==
    IF ~validators_url(url) THEN "ValueError"
    ELSE IF ~flag
         THEN LET r == resolve_hostname(urlparse_hostname(url))
              IN  IF r.exc # None THEN r.exc
                  ELSE IF AnyPrivateIpv4(r.ipv4)
                       THEN "ValueError"
                  ELSE "True"
         ELSE "True"

\* validate_url on a str: "True", or the exception that leaves it
validate_url(url, flag) ==
    IF ~validators_url(url) THEN "ValueError"
    ELSE IF ~flag
         THEN LET r == resolve_hostname(urlparse_hostname(url))
              IN  IF r.exc # None THEN r.exc
                  ELSE IF AnyPrivateIpv4(r.ipv4)
                       THEN "ValueError"
                  ELSE IF AnyPrivateIpv6(r.ipv6)
                       THEN "ValueError"
                  ELSE "True"
         ELSE "True"

\* the loop with valid_urls.insert(0, u) in place of valid_urls.append(u)
RECURSIVE svu_loop_insert_front(_, _, _, _, _)
svu_loop_insert_front(url, k, valid_urls, calls, flag) ==
    IF k > Len(url) THEN [exc |-> None, value |-> valid_urls, calls |-> calls]
    ELSE LET v == validate_url(url[k], flag)
         IN  CASE v = "True" ->
                    svu_loop_insert_front(url, k + 1, <<url[k]>> \o valid_urls,
                                          Append(calls, v), flag)
               [] v = "ValueError" ->
                    svu_loop_insert_front(url, k + 1, valid_urls, Append(calls, v), flag)
               [] OTHER ->
                    [exc |-> v, value |-> <<>>, calls |-> Append(calls, v)]

\* The for loop of safe_validate_urls from element k on. calls is the
\* outcome of each validate_url call made so far (an observation, not state
\* of the program).
RECURSIVE svu_loop(_, _, _, _, _)
svu_loop(url, k, valid_urls, calls, flag) ==
    IF k > Len(url) THEN [exc |-> None, value |-> valid_urls, calls |-> calls]
    ELSE LET v == validate_url(url[k], flag)
         IN  CASE v = "True" ->
                    svu_loop(url, k + 1, Append(valid_urls, url[k]), Append(calls, v), flag)
               [] v = "ValueError" ->
                    svu_loop(url, k + 1, valid_urls, Append(calls, v), flag)
               [] OTHER ->
                    [exc |-> v, value |-> <<>>, calls |-> Append(calls, v)]

safe_validate_urls(url, flag) == svu_loop(url, 1, <<>>, <<>>, flag)

NotCalled == [exc |-> "not called", value |-> <<>>, calls |-> <<>>]

----------------------------------------------------------------------------
(* extract_metadata *)

Absent == "<absent>"             \* soup.find(...) returns None
NoAttr == "<no attribute>"       \* the element is there without the attribute
NoKey == "<no key>"              \* the dict has no such key

\* What extract_metadata looks at in a parsed page: the text of the title
\* element, the content attribute of the meta description element and the
\* lang attribute of the html element.
SOUPS == [title : {Absent, "", "Example"},
          description : {Absent, NoAttr, "A page"},
          lang : {Absent, NoAttr, "en"}]

extract_metadata(soup, url) ==
    [source |-> url,
     title |-> IF soup.title # Absent THEN soup.title ELSE NoKey,
     description |-> IF soup.description = Absent THEN NoKey
                     ELSE IF soup.description = NoAttr
                          THEN "No description found."
                          ELSE soup.description,
     language |-> IF soup.lang = Absent THEN NoKey
                  ELSE IF soup.lang = NoAttr THEN "No language found."
                       ELSE soup.lang]

NoArgs == [soup |-> [title |-> Absent, description |-> Absent, lang |-> Absent],
           url |-> None]
NoMetadata == [source |-> "not called", title |-> NoKey, description |-> NoKey,
               language |-> NoKey]

----------------------------------------------------------------------------
(* The loaders *)

PLAYWRIGHT == "SafePlaywrightURLLoader"
WEBBASE == "SafeWebBaseLoader"

UNSET == 0                       \* requests_per_second None (falsy, as 0 is)
NEVER == -1                      \* last_request_time None
RATES == {UNSET, 2}              \* requests_per_second: unset, 2/s (default)
LOADER_NAMES == {"playwright", "safe_web", "chromium"}

\* timedelta(seconds=1.0 / requests_per_second), in ticks of 0.5 s
min_interval(rps) == 2 \div rps

\* the table as defaultdict(lambda: SafePlaywrightURLLoader)
RAG_WEB_LOADERS_default_playwright(name) ==
    CASE name = "playwright" -> PLAYWRIGHT
      [] name = "safe_web"   -> WEBBASE
      [] OTHER               -> PLAYWRIGHT

\* RAG_WEB_LOADERS[name]: a defaultdict whose default is SafeWebBaseLoader
RAG_WEB_LOADERS(name) ==
    CASE name = "playwright" -> PLAYWRIGHT
      [] name = "safe_web"   -> WEBBASE
      [] OTHER               -> WEBBASE

NoLoader == [cls |-> None, urls |-> <<>>, verify_ssl |-> FALSE,
             requests_per_second |-> UNSET, continue_on_failure |-> FALSE]

\* The fields of a loader that __init__ sets (last_request_time is a
\* variable apart). playwright_ws_url, headless and proxy only choose how the
\* browser is obtained and are left out.
NewLoader(cls, urls, verify_ssl, rps, cof) ==
    [cls |-> cls, urls |-> urls, verify_ssl |-> verify_ssl,
     requests_per_second |-> rps, continue_on_failure |-> cof]

IsHttps(url) == url \in {U_PUB, U_MIX}     \* url.startswith("https://")

NoSslCall == [url |-> None, handshake |-> None, connected |-> FALSE,
              returned |-> FALSE, exc |-> "not called"]

\* _verify_ssl_cert without its except Exception clause: only ssl.SSLError
\* is turned into False
VerifySslCertCall_ssl_error_only(url, handshake) ==
    IF ~IsHttps(url)
    THEN [url |-> url, handshake |-> None, connected |-> FALSE,
          returned |-> TRUE, exc |-> None]
    ELSE [url |-> url, handshake |-> handshake, connected |-> TRUE,
          returned |-> (handshake = "ok"),
          exc |-> IF handshake = "OSError" THEN "OSError" ELSE None]

\* One call of _verify_ssl_cert(url): whether it connected to port 443, what
\* it returned and the exception that left it (None: it returned). handshake
\* is what s.connect((hostname, 443)) does: "ok", ssl.SSLError, or another
\* exception such as a refused connection.
VerifySslCertCall(url, handshake) ==
    IF ~IsHttps(url)
    THEN [url |-> url, handshake |-> None, connected |-> FALSE,
          returned |-> TRUE, exc |-> None]
    ELSE [url |-> url, handshake |-> handshake, connected |-> TRUE,
          returned |-> (handshake = "ok"), exc |-> None]

\* the value _verify_ssl_cert returns
_verify_ssl_cert(url, handshake) == VerifySslCertCall(url, handshake).returned

HANDSHAKES == {"ok", "SSLError", "OSError"}

\* where the for loop goes once URL number k has been dealt with
AfterUrl(k) ==
    IF k < Len(loader.urls)
    THEN IF loader.cls = PLAYWRIGHT THEN "safe" ELSE "scrape"
    ELSE IF loader.cls = PLAYWRIGHT THEN "close" ELSE "done"

----------------------------------------------------------------------------
(* Initial states *)

InitCommon ==
    /\ ENABLE_RAG_LOCAL_WEB_FETCH \in BOOLEAN
    /\ config_flag = ENABLE_RAG_LOCAL_WEB_FETCH   \* as the import bound it
    /\ strategy = None
    /\ ssl_seen = NoSslCall
    /\ loader = NoLoader
    /\ origin = None
    /\ pc = "idle"
    /\ mode = None
    /\ idx = 0
    /\ browser = "none"
    /\ now = 0
    /\ last_request_time = NEVER
    /\ slept = 0
    /\ results = <<>>
    /\ fetched = <<>>
    /\ events = <<>>

Init ==
    /\ InitCommon
    /\ vin = <<>>
    /\ vout = NotCalled
    /\ em_args = NoArgs
    /\ metadata = NoMetadata

\* the inputs of a call of safe_validate_urls on its own
InitValidate ==
    /\ InitCommon
    /\ vin \in BSeq(URLS, MaxLen)
    /\ vout = NotCalled
    /\ em_args = NoArgs
    /\ metadata = NoMetadata

loaderVars == <<loader, origin, pc, mode, idx, browser, now, ssl_seen,
                last_request_time, slept, results, fetched, events>>

----------------------------------------------------------------------------
(* A call of safe_validate_urls(vin) *)

CallSafeValidateUrls ==
    /\ vout = NotCalled
    /\ vout' = safe_validate_urls(vin, ENABLE_RAG_LOCAL_WEB_FETCH)
    /\ UNCHANGED <<ENABLE_RAG_LOCAL_WEB_FETCH, config_flag, strategy, em_args,
                   metadata, vin, loaderVars>>

NextValidate == CallSafeValidateUrls

SpecValidate == InitValidate /\ [][NextValidate]_vars

----------------------------------------------------------------------------
(* Validation calls while the operator changes the configured flag *)

\* The operator sets open_webui.config.ENABLE_RAG_LOCAL_WEB_FETCH to b. The
\* name validate_url reads was bound by the from-import when the module was
\* loaded: rebinding the attribute of the config module leaves it alone.
OperatorSetsFlag(b) ==
    /\ b # config_flag
    /\ config_flag' = b
    /\ UNCHANGED <<ENABLE_RAG_LOCAL_WEB_FETCH, strategy, em_args, metadata,
                   vin, vout, loaderVars>>

\* a later call of safe_validate_urls, on urls
CallSafeValidateUrlsAgain(urls) ==
    /\ vout # NotCalled
    /\ vin' = urls
    /\ vout' = safe_validate_urls(urls, ENABLE_RAG_LOCAL_WEB_FETCH)
    /\ UNCHANGED <<ENABLE_RAG_LOCAL_WEB_FETCH, config_flag, strategy, em_args,
                   metadata, loaderVars>>

NextConfig ==
    \/ \E b \in BOOLEAN : OperatorSetsFlag(b)
    \/ CallSafeValidateUrls
    \/ \E urls \in BSeq(URLS, MaxLen) : CallSafeValidateUrlsAgain(urls)

SpecConfig == InitValidate /\ [][NextConfig]_vars

----------------------------------------------------------------------------
(* A call of extract_metadata(soup, url) *)

InitMetadata ==
    /\ InitCommon
    /\ vin = <<>>
    /\ vout = NotCalled
    /\ em_args \in [soup : SOUPS, url : URLS \ {U_BAD}]
    /\ metadata = NoMetadata

CallExtractMetadata ==
    /\ metadata = NoMetadata
    /\ metadata' = extract_metadata(em_args.soup, em_args.url)
    /\ UNCHANGED <<ENABLE_RAG_LOCAL_WEB_FETCH, config_flag, strategy, em_args,
                   vin, vout, loaderVars>>

NextMetadata == CallExtractMetadata

SpecMetadata == InitMetadata /\ [][NextMetadata]_vars

----------------------------------------------------------------------------
(* Construction of a loader *)

valVars == <<ENABLE_RAG_LOCAL_WEB_FETCH, config_flag, strategy, em_args,
             metadata, vin, vout>>

\* get_web_loader handing urls, not safe_urls, to the loader
get_web_loader_unfiltered(urls, verify_ssl, rps, name) ==
    /\ pc = "idle"
    /\ LET safe_urls == safe_validate_urls(urls, ENABLE_RAG_LOCAL_WEB_FETCH)
       IN  /\ vin' = urls
           /\ vout' = safe_urls
           /\ loader' = NewLoader(RAG_WEB_LOADERS(name), urls, verify_ssl, rps, TRUE)
           /\ strategy' = name
           /\ origin' = "get_web_loader"
           /\ pc' = "constructed"
    /\ UNCHANGED <<ENABLE_RAG_LOCAL_WEB_FETCH, config_flag, em_args, metadata,
                   ssl_seen, mode, idx, browser, now, last_request_time,
                   slept, results, fetched, events>>

\* get_web_loader with continue_on_failure False in web_loader_args
get_web_loader_no_continue(urls, verify_ssl, rps, name) ==
    /\ pc = "idle"
    /\ LET safe_urls == safe_validate_urls(urls, ENABLE_RAG_LOCAL_WEB_FETCH)
       IN  /\ vin' = urls
           /\ vout' = safe_urls
           /\ IF safe_urls.exc # None
              THEN /\ pc' = "factory_raised"
                   /\ UNCHANGED <<loader, origin, strategy>>
              ELSE /\ loader' = NewLoader(RAG_WEB_LOADERS(name), safe_urls.value,
                                          verify_ssl, rps, FALSE)
                   /\ strategy' = name
                   /\ origin' = "get_web_loader"
                   /\ pc' = "constructed"
    /\ UNCHANGED <<ENABLE_RAG_LOCAL_WEB_FETCH, config_flag, em_args, metadata,
                   ssl_seen, mode, idx, browser, now, last_request_time,
                   slept, results, fetched, events>>

\* get_web_loader(urls, verify_ssl, requests_per_second) with the configured
\* RAG_WEB_LOADER.value = name
get_web_loader(urls, verify_ssl, rps, name) ==
    /\ pc = "idle"
    /\ LET safe_urls == safe_validate_urls(urls, ENABLE_RAG_LOCAL_WEB_FETCH)
       IN  /\ vin' = urls
           /\ vout' = safe_urls
           /\ IF safe_urls.exc # None
              THEN /\ pc' = "factory_raised"
                   /\ UNCHANGED <<loader, origin, strategy>>
              ELSE /\ loader' = NewLoader(RAG_WEB_LOADERS(name), safe_urls.value,
                                          verify_ssl, rps, TRUE)
                   /\ strategy' = name
                   /\ origin' = "get_web_loader"
                   /\ pc' = "constructed"
    /\ UNCHANGED <<ENABLE_RAG_LOCAL_WEB_FETCH, config_flag, em_args, metadata,
                   ssl_seen, mode, idx, browser, now, last_request_time,
                   slept, results, fetched, events>>

\* SafePlaywrightURLLoader(urls, ...) called directly
NewSafePlaywrightURLLoader(urls, verify_ssl, rps, cof) ==
    /\ pc = "idle"
    /\ loader' = NewLoader(PLAYWRIGHT, urls, verify_ssl, rps, cof)
    /\ origin' = "direct"
    /\ pc' = "constructed"
    /\ last_request_time' = NEVER
    /\ UNCHANGED <<valVars, ssl_seen, mode, idx, browser, now, slept, results, fetched,
                   events>>

----------------------------------------------------------------------------
(* SafePlaywrightURLLoader.lazy_load / alazy_load *)

\* the except clause without the test of continue_on_failure: always continue
HandleFailure_always_continue(step) ==
    /\ events' = Append(events, [i |-> idx, out |-> "failed"])
    /\ pc' = AfterUrl(idx)
    /\ idx' = idx + 1

\* the except clause with break in place of continue
HandleFailure_break(step) ==
    /\ events' = Append(events, [i |-> idx, out |-> "failed"])
    /\ idx' = idx
    /\ IF loader.continue_on_failure
       THEN pc' = "close"
       ELSE pc' = "raised"

\* the except clause going back to the same URL instead of the next one
HandleFailure_retry(step) ==
    /\ events' = Append(events, [i |-> idx, out |-> "failed"])
    /\ idx' = idx
    /\ IF loader.continue_on_failure
       THEN pc' = "safe"
       ELSE pc' = "raised"

\* the except clause of the for loop, for URL number idx failing at step
\* (the step only goes into the log message)
HandleFailure(step) ==
    /\ events' = Append(events, [i |-> idx, out |-> "failed"])
    /\ IF loader.continue_on_failure
       THEN /\ pc' = AfterUrl(idx)          \* log.exception(...); continue
            /\ idx' = idx + 1
       ELSE /\ pc' = "raised"               \* raise e
            /\ idx' = idx

\* lazy_load (m = "sync") or alazy_load (m = "async") up to the for loop:
\* the browser is connected to or launched
StartLoad(m) ==
    /\ pc = "constructed"
    /\ loader.cls = PLAYWRIGHT
    /\ mode' = m
    /\ browser' = "open"
    /\ idx' = 1
    /\ pc' = AfterUrl(0)
    /\ UNCHANGED <<valVars, ssl_seen, loader, origin, now, last_request_time,
                   slept, results, fetched, events>>

\* the wait without the sleep: the time is recorded at once
WaitForRateLimit_no_sleep(m, rps, last, t, over) ==
    [exc |-> None, now |-> t, last |-> t, slept |-> 0]

\* _wait_for_rate_limit / _sync_wait_for_rate_limit started at clock t with
\* last request at last: the exception that leaves it (or None), the clock
\* when it ends, the new last_request_time and the sleep asked for. over is
\* how long the sleep oversleeps. The sync variant calls time.sleep, and the
\* module's time is datetime.time, which has no sleep.
WaitForRateLimit(m, rps, last, t, over) ==
    IF rps # UNSET /\ last # NEVER /\ t - last < min_interval(rps)
    THEN IF m = "sync"
         THEN [exc |-> "AttributeError", now |-> t, last |-> last, slept |-> 0]
         ELSE LET time_since_last == t - last
                  woke == t + (min_interval(rps) - time_since_last) + over
              IN  [exc |-> None, now |-> woke, last |-> woke,
                   slept |-> min_interval(rps) - time_since_last]
    ELSE [exc |-> None, now |-> t, last |-> t, slept |-> 0]

\* _safe_process_url with the wait before the SSL check
SafeProcessUrl_wait_first(handshake, d, over) ==
    /\ pc = "safe"
    /\ LET url == loader.urls[idx]
           w == WaitForRateLimit(mode, loader.requests_per_second,
                                 last_request_time, now + d, over)
       IN  /\ now' = w.now
           /\ last_request_time' = w.last
           /\ slept' = w.slept
           /\ ssl_seen' = IF loader.verify_ssl /\ w.exc = None
                          THEN VerifySslCertCall(url, handshake)
                          ELSE ssl_seen
           /\ IF w.exc # None
                 THEN HandleFailure("wait")
                 ELSE IF loader.verify_ssl /\ ~_verify_ssl_cert(url, handshake)
                      THEN HandleFailure("ssl")
                      ELSE /\ pc' = "goto"
                           /\ UNCHANGED <<idx, events>>
    /\ UNCHANGED <<valVars, loader, origin, mode, browser, results, fetched>>

\* _safe_process_url / _safe_process_url_sync for the URL at idx: the SSL
\* check when verify_ssl is set, then the rate-limit wait. The clock is read
\* in the wait only: d is the time gone by since it was last read.
SafeProcessUrl(handshake, d, over) ==
    /\ pc = "safe"
    /\ LET url == loader.urls[idx]
       IN  /\ ssl_seen' = IF loader.verify_ssl
                          THEN VerifySslCertCall(url, handshake)
                          ELSE ssl_seen      \* and short-circuits: no call
           /\ IF loader.verify_ssl /\ ~_verify_ssl_cert(url, handshake)
                 THEN /\ HandleFailure("ssl")
                      /\ UNCHANGED <<now, last_request_time, slept>>
                 ELSE LET w == WaitForRateLimit(mode, loader.requests_per_second,
                                                last_request_time, now + d, over)
                      IN  /\ now' = w.now
                          /\ last_request_time' = w.last
                          /\ slept' = w.slept
                          /\ IF w.exc # None
                                THEN HandleFailure("wait")
                                ELSE /\ pc' = "goto"
                                     /\ UNCHANGED <<idx, events>>
    /\ UNCHANGED <<valVars, loader, origin, mode, browser, results, fetched>>

\* browser.new_page() and page.goto(url)
Goto(response) ==
    /\ pc = "goto"
    /\ fetched' = Append(fetched, loader.urls[idx])
    /\ IF response = "response"
       THEN /\ pc' = "evaluate"
            /\ UNCHANGED <<idx, events>>
       ELSE HandleFailure("goto")         \* goto raised, or returned None
    /\ UNCHANGED <<valVars, ssl_seen, loader, origin, mode, browser, now,
                   last_request_time, slept, results>>

\* self.evaluator.evaluate(page, browser, response) and the yield
Evaluate(outcome) ==
    /\ pc = "evaluate"
    /\ IF outcome = "text"
       THEN /\ results' = Append(results, loader.urls[idx])
            /\ events' = Append(events, [i |-> idx, out |-> "ok"])
            /\ pc' = "yield"
            /\ idx' = idx
       ELSE /\ HandleFailure("evaluate")
            /\ UNCHANGED results
    /\ UNCHANGED <<valVars, ssl_seen, loader, origin, mode, browser, now,
                   last_request_time, slept, fetched>>

\* the consumer asks for the next Document: the generator goes on after yield
Resume ==
    /\ pc = "yield"
    /\ pc' = AfterUrl(idx)
    /\ idx' = idx + 1
    /\ UNCHANGED <<valVars, ssl_seen, loader, origin, mode, browser, now,
                   last_request_time, slept, results, fetched, events>>

\* the consumer drops the generator at a yield: GeneratorExit is not an
\* Exception, the except clause does not catch it, the loop is left
Abandon ==
    /\ pc = "yield"
    /\ pc' = "abandoned"
    /\ UNCHANGED <<valVars, ssl_seen, loader, origin, mode, idx, browser, now,
                   last_request_time, slept, results, fetched, events>>

\* browser.close() never returning
BrowserClose_hangs ==
    /\ pc = "close"
    /\ browser' = "closing"
    /\ UNCHANGED <<valVars, ssl_seen, loader, origin, pc, mode, idx, now,
                   last_request_time, slept, results, fetched, events>>

\* browser.close() after the for loop
BrowserClose ==
    /\ pc = "close"
    /\ browser' = "closed"
    /\ pc' = "done"
    /\ UNCHANGED <<valVars, ssl_seen, loader, origin, mode, idx, now,
                   last_request_time, slept, results, fetched, events>>

----------------------------------------------------------------------------
(* SafeWebBaseLoader.lazy_load *)

StartStatic ==
    /\ pc = "constructed"
    /\ loader.cls = WEBBASE
    /\ mode' = "sync"
    /\ idx' = 1
    /\ pc' = AfterUrl(0)
    /\ UNCHANGED <<valVars, ssl_seen, loader, origin, browser, now, last_request_time,
                   slept, results, fetched, events>>

\* the loop body without the try/except: a failure leaves the generator
Scrape_raises(outcome) ==
    /\ pc = "scrape"
    /\ fetched' = Append(fetched, loader.urls[idx])
    /\ events' = Append(events, [i |-> idx,
                                 out |-> IF outcome = "ok" THEN "ok" ELSE "failed"])
    /\ idx' = idx
    /\ IF outcome = "ok"
       THEN /\ results' = Append(results, loader.urls[idx])
            /\ pc' = "yield"
       ELSE /\ pc' = "raised"
            /\ UNCHANGED results
    /\ UNCHANGED <<valVars, ssl_seen, loader, origin, mode, browser, now,
                   last_request_time, slept>>

\* one turn of the for loop: _scrape, get_text, extract_metadata, yield;
\* any Exception is logged and the loop goes on
Scrape(outcome) ==
    /\ pc = "scrape"
    /\ fetched' = Append(fetched, loader.urls[idx])
    /\ events' = Append(events, [i |-> idx,
                                 out |-> IF outcome = "ok" THEN "ok" ELSE "failed"])
    /\ IF outcome = "ok"
       THEN /\ results' = Append(results, loader.urls[idx])
            /\ pc' = "yield"
            /\ idx' = idx
       ELSE /\ pc' = AfterUrl(idx)
            /\ idx' = idx + 1
            /\ UNCHANGED results
    /\ UNCHANGED <<valVars, ssl_seen, loader, origin, mode, browser, now,
                   last_request_time, slept>>

----------------------------------------------------------------------------

Next ==
    \/ /\ pc = "idle"
       /\ \E name \in LOADER_NAMES, verify_ssl \in BOOLEAN, rps \in RATES :
            \E urls \in BSeq(FACTORY_URLS, IF RAG_WEB_LOADERS(name) = PLAYWRIGHT
                                            THEN MaxUrls ELSE MaxPaths) :
                get_web_loader(urls, verify_ssl, rps, name)
    \/ /\ pc = "idle"
       /\ \E urls \in BSeq(DIRECT_URLS, MaxUrls), verify_ssl \in BOOLEAN,
             rps \in RATES, cof \in BOOLEAN :
                NewSafePlaywrightURLLoader(urls, verify_ssl, rps, cof)
    \/ \E m \in {"sync", "async"} : StartLoad(m)
    \/ \E handshake \in HANDSHAKES, d \in 0..MaxElapse, over \in 0..MaxOvershoot :
            SafeProcessUrl(handshake, d, over)
    \/ \E response \in {"response", "none", "raise"} : Goto(response)
    \/ \E outcome \in {"text", "raise"} : Evaluate(outcome)
    \/ Resume
    \/ Abandon
    \/ BrowserClose
    \/ StartStatic
    \/ \E outcome \in {"ok", "scrape_raise", "parse_raise"} : Scrape(outcome)

Spec == Init /\ [][Next]_vars

\* The steps of a consumption: the collaborator calls (SSL check, sleep,
\* navigation, evaluation, scraping, closing the browser) and the consumer
\* asking for the next Document or dropping the generator.
Consume ==
    \/ \E handshake \in HANDSHAKES, d \in 0..MaxElapse, over \in 0..MaxOvershoot :
            SafeProcessUrl(handshake, d, over)
    \/ \E response \in {"response", "none", "raise"} : Goto(response)
    \/ \E outcome \in {"text", "raise"} : Evaluate(outcome)
    \/ Resume
    \/ Abandon
    \/ BrowserClose
    \/ \E outcome \in {"ok", "scrape_raise", "parse_raise"} : Scrape(outcome)

\* Loaders over at most MaxLiveUrls URLs, made by get_web_loader or directly
NextLive ==
    \/ /\ pc = "idle"
       /\ \E name \in LOADER_NAMES, verify_ssl \in BOOLEAN, rps \in RATES :
            \E urls \in BSeq(DIRECT_URLS, MaxLiveUrls) :
                get_web_loader(urls, verify_ssl, rps, name)
    \/ /\ pc = "idle"
       /\ \E urls \in BSeq(DIRECT_URLS, MaxLiveUrls), verify_ssl \in BOOLEAN,
             rps \in RATES, cof \in BOOLEAN :
                NewSafePlaywrightURLLoader(urls, verify_ssl, rps, cof)
    \/ \E m \in {"sync", "async"} : StartLoad(m)
    \/ StartStatic
    \/ Consume

\* Every collaborator call returns and the consumer does not stop for ever
\* in the middle: a consumption that can take a step takes one.
SpecLive == Init /\ [][NextLive]_vars /\ WF_vars(Consume)

----------------------------------------------------------------------------
(* Properties of validate_url and safe_validate_urls (SpecValidate) *)

Range(s) == {s[k] : k \in 1..Len(s)}

PRIVATE_ADDRESSES == {"10.0.0.5", "fc00::1"}

\* the hostname of url resolves, and to at least one private address
ResolvesToPrivate(url) ==
    LET a == getaddrinfo(urlparse_hostname(url))
    IN  /\ a.exc = None
        /\ \E k \in 1..Len(a.info) : a.info[k].addr \in PRIVATE_ADDRESSES

\* C1: with the allow-local-fetch flag false, every syntactically valid URL
\* whose hostname resolves to at least one private IPv4 or IPv6 address makes
\* validate_url raise the invalid-URL error and is absent from the result of
\* safe_validate_urls; with the flag true the same URL is in the result.
C1_PrivateExcludedUnlessLocalFetch ==
    vout # NotCalled =>
        \A k \in 1..Len(vin) :
            (vin[k] # U_BAD /\ ResolvesToPrivate(vin[k])) =>
                IF ENABLE_RAG_LOCAL_WEB_FETCH
                THEN /\ vout.exc = None
                     /\ vin[k] \in Range(vout.value)
                ELSE /\ vin[k] \notin Range(vout.value)
                     /\ k <= Len(vout.calls) => vout.calls[k] = "ValueError"

C1_Witness ==
    /\ ~ENABLE_RAG_LOCAL_WEB_FETCH
    /\ vin = <<U_PUB, U_MIX, U_PRIV>>
    /\ vout.exc = None
    /\ vout.value = <<U_PUB>>
    /\ vout.calls = <<"True", "ValueError", "ValueError">>

\* C3: safe_validate_urls never raises, whatever its input and whatever the
\* outcome of validating each element.
C3_NeverRaises ==
    vout.exc \in {"not called", None}

\* C4: when safe_validate_urls returns, its result is the input with exactly
\* the elements for which validate_url succeeds, in input order; a
\* syntactically invalid string makes validate_url raise the invalid-URL
\* error and is never in the result, whatever the flag.
C4_OrderPreservingFilter ==
    /\ vout.exc = None =>
          vout.value = SelectSeq(vin,
              LAMBDA u : validate_url(u, ENABLE_RAG_LOCAL_WEB_FETCH) = "True")
    /\ vout # NotCalled =>
          /\ U_BAD \notin Range(vout.value)
          /\ \A k \in 1..Len(vout.calls) :
                vin[k] = U_BAD => vout.calls[k] = "ValueError"

C4_Witness ==
    /\ vin = <<U_PRIV, U_BAD, U_PUB>>
    /\ ENABLE_RAG_LOCAL_WEB_FETCH
    /\ vout.exc = None
    /\ vout.value = <<U_PRIV, U_PUB>>

----------------------------------------------------------------------------
(* Properties of the loaders (Spec) *)

\* the hostname of url resolves, and to public addresses only
ResolvesToPublicOnly(url) ==
    LET a == getaddrinfo(urlparse_hostname(url))
    IN  /\ a.exc = None
        /\ \A k \in 1..Len(a.info) : a.info[k].addr \notin PRIVATE_ADDRESSES

\* C2: every URL a loader returned by get_web_loader navigates to or scrapes,
\* however it is consumed, is syntactically valid and, when local fetch is
\* disabled, has a hostname that resolves, and to no private address; a URL
\* that failed validation or resolution is never fetched.
C2_FetchedPassedValidation ==
    origin = "get_web_loader" =>
        \A k \in 1..Len(fetched) :
            /\ fetched[k] # U_BAD
            /\ ~ENABLE_RAG_LOCAL_WEB_FETCH => ResolvesToPublicOnly(fetched[k])

C2_Witness ==
    /\ origin = "get_web_loader"
    /\ ~ENABLE_RAG_LOCAL_WEB_FETCH
    /\ loader.cls = PLAYWRIGHT
    /\ fetched = <<U_PUB, U_PUB>>

\* C5: once SafePlaywrightURLLoader has its browser, browser.close() is
\* called on every exit of the sequence: when all URLs are processed and
\* when a failure is propagated with continue_on_failure = false.
C5_BrowserClosedOnEveryExit ==
    (loader.cls = PLAYWRIGHT /\ pc \in {"done", "raised"}) => browser = "closed"

IsPlaywrightRun(cof) ==
    /\ loader.cls = PLAYWRIGHT
    /\ loader.continue_on_failure = cof
    /\ pc \notin {"idle", "constructed"}

C6_Inv ==
    IsPlaywrightRun(FALSE) =>
        /\ results = SubSeq(loader.urls, 1, Len(results))
        /\ fetched = SubSeq(loader.urls, 1, Len(fetched))
        /\ \A j \in 1..Len(events) :
              /\ events[j].i = j
              /\ events[j].out # "ok" =>
                    /\ j = Len(events)
                    /\ pc = "raised"
                    /\ idx = j
                    /\ Len(results) = j - 1
                    /\ Len(fetched) <= j

\* C6: with continue_on_failure = false, when URL k is the first to fail the
\* Documents produced are exactly those of URLs 1..k-1 in input order, the
\* error is propagated, no URL after k is navigated to and URL k is not
\* navigated to again; nothing happens after the error.
C6_AbortAtFirstFailure ==
    /\ []C6_Inv
    /\ [][pc = "raised" => UNCHANGED <<pc, idx, results, fetched, events>>]_vars

C6_Witness ==
    /\ IsPlaywrightRun(FALSE)
    /\ pc = "raised"
    /\ Len(loader.urls) = 3
    /\ idx = 2
    /\ events[2].out = "failed"
    /\ Len(fetched) = 2
    /\ results = <<loader.urls[1]>>

IsOk(e) == e.out = "ok"

\* the URLs whose processing ended with a Document
OkUrls ==
    LET ok == SelectSeq(events, IsOk)
    IN  [k \in 1..Len(ok) |-> loader.urls[ok[k].i]]

\* C7: with continue_on_failure = true no failure is propagated, every URL
\* is processed once and in order whatever happened to the earlier ones,
\* and the Documents are exactly those of the URLs whose SSL check,
\* navigation and evaluation all succeeded, in input order.
C7_ContinueOnFailure ==
    IsPlaywrightRun(TRUE) =>
        /\ pc # "raised"
        /\ \A j \in 1..Len(events) : events[j].i = j
        /\ results = OkUrls
        /\ pc \in {"close", "done"} => Len(events) = Len(loader.urls)

C7_Witness ==
    /\ IsPlaywrightRun(TRUE)
    /\ pc = "done"
    /\ Len(loader.urls) = 3
    /\ events[1].out = "ok"
    /\ events[2].out = "failed"
    /\ events[3].out = "ok"
    /\ fetched = <<loader.urls[1], loader.urls[3]>>
    /\ results = <<loader.urls[1], loader.urls[3]>>

\* C8: SafeWebBaseLoader.lazy_load never propagates a failure of a URL: it
\* goes on to the next URL and yields one Document for each URL that did not
\* fail, in input order.
C8_StaticAlwaysContinues ==
    (loader.cls = WEBBASE /\ pc \notin {"idle", "constructed"}) =>
        /\ pc # "raised"
        /\ \A j \in 1..Len(events) :
              /\ events[j].i = j
              /\ fetched[j] = loader.urls[j]
        /\ Len(fetched) = Len(events)
        /\ results = OkUrls
        /\ pc = "done" => Len(events) = Len(loader.urls)

C8_Witness ==
    /\ loader.cls = WEBBASE
    /\ pc = "done"
    /\ Len(loader.urls) = 3
    /\ events[1].out = "ok"
    /\ events[2].out = "failed"
    /\ events[3].out = "ok"
    /\ results = <<loader.urls[1], loader.urls[3]>>

\* C9: with requests_per_second = r, a wait that records last_request_time
\* records a value at least 1/r after the value recorded before it (r times
\* the gap in ticks of half a second is at least 2), recorded values never
\* decrease, and with requests_per_second unset the wait never sleeps.
C9_RateLimitGap ==
    [][/\ (pc = "safe" /\ pc' = "goto" /\ last_request_time # NEVER
            /\ loader.requests_per_second # UNSET) =>
              loader.requests_per_second * (last_request_time' - last_request_time) >= 2
       /\ last_request_time # NEVER => last_request_time' >= last_request_time
       /\ (pc = "safe" /\ loader.requests_per_second = UNSET) => slept' = 0
      ]_vars

C9_Witness ==
    /\ loader.cls = PLAYWRIGHT
    /\ mode = "async"
    /\ loader.requests_per_second = 2
    /\ pc = "goto"
    /\ idx = 2
    /\ Len(fetched) = 1
    /\ slept = 1
    /\ last_request_time = now

\* C10: the synchronous and the asynchronous path behave alike: at every URL,
\* for the same configuration, last_request_time and clock, the two waits
\* end the same way (both return, or raise the same) and leave the same
\* last_request_time.
C10_SyncAsyncEquivalent ==
    pc = "safe" =>
        \A over \in 0..MaxOvershoot :
            WaitForRateLimit("sync", loader.requests_per_second,
                             last_request_time, now, over)
            = WaitForRateLimit("async", loader.requests_per_second,
                               last_request_time, now, over)

----------------------------------------------------------------------------
(* The factory (Spec) *)

\* url is syntactically valid and either local fetch is allowed or its
\* hostname resolves to public addresses only
Survives(url) ==
    /\ url # U_BAD
    /\ ENABLE_RAG_LOCAL_WEB_FETCH \/ ResolvesToPublicOnly(url)

----------------------------------------------------------------------------
(* extract_metadata (SpecMetadata) *)

\* C12: extract_metadata always sets source to the URL and, for each of
\* title, description and language, returns the page's value when it is
\* present and the "not found" sentinel when it is absent.
C12_MetadataWithSentinels ==
    metadata # NoMetadata =>
        /\ metadata.source = em_args.url
        /\ IF em_args.soup.title # Absent
              THEN metadata.title = em_args.soup.title
              ELSE metadata.title # NoKey        \* some sentinel is there
        /\ metadata.description =
              (IF em_args.soup.description \notin {Absent, NoAttr}
               THEN em_args.soup.description ELSE "No description found.")
        /\ metadata.language =
              (IF em_args.soup.lang \notin {Absent, NoAttr}
               THEN em_args.soup.lang ELSE "No language found.")

----------------------------------------------------------------------------
(* The steps of one URL and of one consumption (Spec, SpecLive) *)

\* C13: for each URL the steps are SSL check, wait, open a page and
\* navigate, evaluate, emit. When verify_ssl is set and the SSL check fails
\* no page is opened for the URL and last_request_time is unchanged; once
\* the wait has completed, last_request_time is the time it recorded and a
\* failing navigation or evaluation leaves it alone.
C13_StepOrder ==
    /\ [](pc \in {"goto", "evaluate"} =>
            /\ last_request_time # NEVER
            /\ last_request_time = now)
    /\ [][/\ (pc = "safe" /\ loader.verify_ssl /\ ~ssl_seen'.returned) =>
                /\ pc' # "goto"
                /\ fetched' = fetched
                /\ last_request_time' = last_request_time
          /\ (pc' = "goto" /\ pc # "goto") => pc = "safe"
          /\ (pc' = "evaluate" /\ pc # "evaluate") =>
                /\ pc = "goto"
                /\ fetched' = Append(fetched, loader.urls[idx])
          /\ (loader.cls = PLAYWRIGHT /\ results' # results) =>
                /\ pc = "evaluate"
                /\ results' = Append(results, loader.urls[idx])
          /\ pc \in {"goto", "evaluate"} => last_request_time' = last_request_time
         ]_vars

C13_Witness ==
    /\ loader.cls = PLAYWRIGHT
    /\ loader.verify_ssl
    /\ loader.urls = <<U_PUB, U_PUB, U_PUB>>
    /\ pc = "safe"
    /\ idx = 3
    /\ events = <<[i |-> 1, out |-> "failed"], [i |-> 2, out |-> "failed"]>>
    /\ fetched = <<U_PUB>>
    /\ last_request_time = now

\* C14: every call of the rate-limit wait, in the sync and in the async
\* variant, at any rate and after any last_request_time, completes normally
\* and ends by setting last_request_time to the current time.
C14_WaitAlwaysCompletes ==
    pc = "safe" =>
        \A d \in 0..MaxElapse, over \in 0..MaxOvershoot :
            LET w == WaitForRateLimit(mode, loader.requests_per_second,
                                      last_request_time, now + d, over)
            IN  /\ w.exc = None
                /\ w.last = w.now

C15_Inv ==
    ssl_seen # NoSslCall =>
        /\ ssl_seen.exc = None
        /\ ~IsHttps(ssl_seen.url) => (ssl_seen.returned /\ ~ssl_seen.connected)
        /\ IsHttps(ssl_seen.url) =>
              /\ ssl_seen.connected
              /\ ssl_seen.returned <=> (ssl_seen.handshake = "ok")

\* C15: _verify_ssl_cert never raises; it returns true for every non-HTTPS
\* URL without connecting; for an HTTPS URL it returns true only when the
\* handshake on port 443 completes, and false both on a TLS failure and on
\* any other connection error; with verify_ssl set a URL for which it
\* returned false is not navigated to.
C15_SslCheck ==
    /\ []C15_Inv
    /\ [][/\ (pc = "safe" /\ loader.verify_ssl /\ ~ssl_seen'.returned) =>
                (pc' # "goto" /\ fetched' = fetched)
          /\ (pc = "goto" /\ loader.verify_ssl) =>
                /\ ssl_seen.url = loader.urls[idx]
                /\ ssl_seen.returned
         ]_vars

C15_Witness ==
    /\ loader.verify_ssl
    /\ loader.urls = <<U_PUB, U_PRIV>>
    /\ ssl_seen.url = U_PUB
    /\ ssl_seen.handshake = "OSError"
    /\ ~ssl_seen.returned
    /\ pc = "safe"
    /\ idx = 2
    /\ events = <<[i |-> 1, out |-> "failed"]>>
    /\ fetched = <<>>

Consuming == pc \in {"safe", "goto", "evaluate", "yield", "close", "scrape"}
Ended == pc \in {"done", "raised", "abandoned"}

C16_Inv ==
    (Consuming \/ Ended) =>
        /\ \A j \in 1..Len(events) : events[j].i = j
        /\ idx <= Len(loader.urls) + 1
        /\ Len(events) \in {idx - 1, idx}
        /\ pc \in {"safe", "goto", "evaluate", "scrape"} => Len(events) = idx - 1
        /\ Len(fetched) <= Len(events) + (IF pc = "evaluate" THEN 1 ELSE 0)
        /\ Len(results) <= Len(events)
        /\ Len(results) <= Len(loader.urls)

\* C16: in one consumption, with either loader, the URLs are processed one
\* at a time in input order: URL i+1 is started only once URL i has been
\* emitted or its failure handled, no URL is attempted more than once, and
\* there are never more results than URLs.
C16_OneAtATimeInOrder ==
    /\ []C16_Inv
    /\ [][/\ idx' \in {idx, idx + 1}
          /\ fetched' # fetched => fetched' = Append(fetched, loader.urls[idx])
          /\ events' # events => \E o \in {"ok", "failed"} :
                events' = Append(events, [i |-> idx, out |-> o])
         ]_vars

C16_Witness ==
    /\ loader.cls = PLAYWRIGHT
    /\ loader.urls = <<U_PUB, U_PRIV, U_PUB>>
    /\ pc = "done"
    /\ idx = 4
    /\ events = <<[i |-> 1, out |-> "failed"], [i |-> 2, out |-> "ok"],
                  [i |-> 3, out |-> "failed"]>>
    /\ fetched = <<U_PUB, U_PRIV>>
    /\ results = <<U_PRIV>>

\* C18: consuming a loader over a finite list of URLs always ends, provided
\* every collaborator call returns: with the list exhausted, with the error
\* propagated for a SafePlaywrightURLLoader with continue_on_failure false,
\* or with the consumer dropping the generator; the loop goes through the
\* list once and never back.
C18_Terminates ==
    /\ Consuming ~> Ended
    /\ [][idx' >= idx]_vars
    /\ [](pc = "raised" =>
            (loader.cls = PLAYWRIGHT /\ ~loader.continue_on_failure))

C18_Witness ==
    /\ pc = "done"
    /\ loader.cls = PLAYWRIGHT
    /\ loader.continue_on_failure
    /\ mode = "sync"
    /\ Len(loader.urls) = MaxLiveUrls
    /\ events = <<[i |-> 1, out |-> "ok"], [i |-> 2, out |-> "failed"]>>
    /\ browser = "closed"

\* C19: get_web_loader always constructs the loader with
\* continue_on_failure true, so consuming a SafePlaywrightURLLoader it made
\* never propagates the failure of a URL (SSL check, rate-limit wait,
\* navigation, evaluation) and does not stop before the last URL has been
\* attempted.
C19_FactoryLoaderNeverPropagates ==
    (origin = "get_web_loader" /\ loader.cls = PLAYWRIGHT) =>
        /\ loader.continue_on_failure
        /\ pc # "raised"
        /\ pc \in {"close", "done"} => Len(events) = Len(loader.urls)

C19_Witness ==
    /\ origin = "get_web_loader"
    /\ loader.cls = PLAYWRIGHT
    /\ mode = "sync"
    /\ pc = "done"
    /\ loader.verify_ssl
    /\ Len(loader.urls) = 3
    /\ events = <<[i |-> 1, out |-> "ok"], [i |-> 2, out |-> "failed"],
                  [i |-> 3, out |-> "failed"]>>
    /\ ~ssl_seen.returned
    /\ Len(fetched) = 1

----------------------------------------------------------------------------
(* The configured flag (SpecConfig) *)

\* C17: the allow-local-fetch flag is consulted at every validation call and
\* not cached: a call made after the operator changed the flag applies the
\* new value.
C17_FlagReadAtEachCall ==
    [][vout' # vout => vout' = safe_validate_urls(vin', config_flag)]_vars

====
